---- MODULE Spec2Model ----
(***************************************************************************)
(* Model of audio_to_article/main.py: a script that runs top to bottom.    *)
(*   setup -> transcript (cache hit / miss) -> API key -> draft ->         *)
(*   improve -> export .docx -> export .pdf                                *)
(* The state is the script's position, its module-level variables, the     *)
(* filesystem it reads and writes, what it printed and which generation    *)
(* requests it issued.  External collaborators (Whisper, the generative    *)
(* service) answer nondeterministically.  Filesystem failures (permission, *)
(* disk full) are outside the model.                                       *)
(***************************************************************************)
EXTENDS Integers, Sequences, FiniteSets, TLC

VARIABLES
    pc,                     \* next statement group of the script to run
    run,                    \* number of the current run of the script
    platform,               \* os.name of the machine ("nt" or "posix")
    google_api_key,         \* what os.getenv("GOOGLE_API_KEY") returns
    audio,                  \* version of the audio file's content
    dirs,                   \* directories that exist (set of paths)
    files,                  \* regular files: path -> content
    transcript,             \* module variable transcript
    client,                 \* module variable client
    article_draft_text,     \* module variable article_draft_text
    improved_article_text,  \* module variable improved_article_text
    stdout,                 \* lines printed in this run
    requests,               \* generate_content requests issued in this run
    transcribe_calls,       \* invocations of transcribe_audio in this run
    error,                  \* the exception that ended this run, if any
    atStart,                \* the files as they were when this run started
    cachedFrom,             \* what the cache file was written from, if known
    call                    \* the last direct call of a function of the module

vars == <<pc, run, platform, google_api_key, audio, dirs, files, transcript,
          client, article_draft_text, improved_article_text, stdout, requests,
          transcribe_calls, error, atStart, cachedFrom, call>>

(***************************************************************************)
(* Bounds                                                                  *)
(***************************************************************************)
MaxLen == 2
MaxRuns == 2

(***************************************************************************)
(* Text.  A text is a sequence of characters; "CR" and "LF" stand for      *)
(* '\r' and '\n', every other token for an ordinary character.             *)
(***************************************************************************)
Chars == {"a", "CR", "LF"}
Texts == UNION {[1..n -> Chars] : n \in 0..MaxLen}

\* Python values that are not text.
Unset == <<"<unset>">>
None == <<"<None>">>
NoneText == <<"N", "o", "n", "e">>

\* What an f-string writes for {value}.
Str(value) == IF value = None THEN NoneText ELSE value

\* os.linesep
LineSep(plat) == IF plat = "nt" THEN <<"CR", "LF">> ELSE <<"LF">>

\* file.write(text) on a file opened with open(path, "w", encoding="utf-8"):
\* text mode with newline=None writes each '\n' as os.linesep.
RECURSIVE WriteText(_, _)
WriteText(text, plat) ==
    IF text = <<>> THEN <<>>
    ELSE IF Head(text) = "LF" THEN LineSep(plat) \o WriteText(Tail(text), plat)
    ELSE <<Head(text)>> \o WriteText(Tail(text), plat)

\* file.read() on a file opened with open(path, "r", encoding="utf-8"):
\* text mode with newline=None reads '\r\n' and a lone '\r' as '\n'.
RECURSIVE ReadText(_)
ReadText(content) ==
    IF content = <<>> THEN <<>>
    ELSE IF Head(content) = "CR"
         THEN IF Len(content) >= 2 /\ content[2] = "LF"
              THEN <<"LF">> \o ReadText(Tail(Tail(content)))
              ELSE <<"LF">> \o ReadText(Tail(content))
    ELSE <<Head(content)>> \o ReadText(Tail(content))

\* text.replace("\n", "<br/>")
RECURSIVE ReplaceNewlines(_)
ReplaceNewlines(text) ==
    IF text = <<>> THEN <<>>
    ELSE IF Head(text) = "LF" THEN <<"<br/>">> \o ReplaceNewlines(Tail(text))
    ELSE <<Head(text)>> \o ReplaceNewlines(Tail(text))

(***************************************************************************)
(* Paths.  A path is the sequence of its components; a file name is split  *)
(* in stem and suffix.                                                     *)
(***************************************************************************)
data_path == <<"data">>
file_name == <<"AI_Foundation_Model_Selection", ".mp3">>

\* os.path.splitext(file_name)[0]
file_name_without_extension == file_name[1]

transcript_path ==
    <<"data", "transcripts", file_name_without_extension, "_transcript.txt">>

save_article_path == <<"data", "articles", file_name_without_extension, "_article">>
docx_path == Append(save_article_path, ".docx")
pdf_path == Append(save_article_path, ".pdf")

\* os.path.join(base_path, sub) for a relative name sub
Join(base_path, sub) == Append(base_path, sub)

Prefixes(path) == {SubSeq(path, 1, n) : n \in 1..Len(path)}

\* os.path.isfile(path)
IsFile(fs, path) == path \in DOMAIN fs

\* open(path, "w") ... write: the file is created or truncated, then written.
WriteFile(fs, path, content) ==
    [p \in (DOMAIN fs) \cup {path} |-> IF p = path THEN content ELSE fs[p]]

(***************************************************************************)
(* Exceptions                                                              *)
(***************************************************************************)
NoExc == [cls |-> "", msg |-> ""]

\* Classes that derive from Exception, and those that derive from
\* BaseException only.
ExceptionClasses == {"Exception", "ValueError", "TypeError", "FileExistsError",
                     "FileNotFoundError", "AttributeError", "ImportError"}
BaseOnlyClasses == {"KeyboardInterrupt"}

\* Whether "except Exception" catches exc.
CaughtByExceptException(exc) == exc.cls \in ExceptionClasses

Raise(cls, msg) == [cls |-> cls, msg |-> msg]

(***************************************************************************)
(* ensure_directories                                                      *)
(***************************************************************************)
DefaultSubdirs == <<"audio_files", "transcripts", "articles">>

\* Mutant of Makedirs: exist_ok is not honoured.
MakedirsNoExistOk(d, path, exist_ok) ==
    IF path \in d
    THEN [dirs |-> d, raised |-> Raise("FileExistsError", "File exists")]
    ELSE [dirs |-> d \cup Prefixes(path), raised |-> NoExc]

\* os.makedirs(path, exist_ok=exist_ok) on the directory set d.
Makedirs(d, path, exist_ok) ==
    IF path \in d
    THEN IF exist_ok
         THEN [dirs |-> d, raised |-> NoExc]
         ELSE [dirs |-> d, raised |-> Raise("FileExistsError", "File exists")]
    ELSE [dirs |-> d \cup Prefixes(path), raised |-> NoExc]

\* for sub in subdirs: os.makedirs(os.path.join(base_path, sub), exist_ok=True)
RECURSIVE MakeEach(_, _, _)
MakeEach(d, base_path, subdirs) ==
    IF subdirs = <<>> THEN [dirs |-> d, raised |-> NoExc]
    ELSE LET r == Makedirs(d, Join(base_path, Head(subdirs)), TRUE)
         IN IF r.raised # NoExc THEN r
            ELSE MakeEach(r.dirs, base_path, Tail(subdirs))

EnsureDirectories(d, base_path, subdirs) ==
    MakeEach(d, base_path, IF subdirs = None THEN DefaultSubdirs ELSE subdirs)

(***************************************************************************)
(* The collaborators.  transcribe_audio returns any text or raises; a      *)
(* generate_content request returns a response with some text or raises.   *)
(***************************************************************************)
ResponseTexts == {<<"x">>, <<"x", "LF", "y">>}

TranscribeOutcomes ==
    [raised : {NoExc}, text : Texts]
        \cup {[raised |-> Raise("Exception", "whisper failed"), text |-> <<>>]}

GenOutcomes ==
    [raised : {NoExc}, text : ResponseTexts]
        \cup [raised : {Raise("Exception", "API Error"),
                        Raise("KeyboardInterrupt", "")},
              text : {<<>>}]

(***************************************************************************)
(* draft_article and the improvement pass                                  *)
(***************************************************************************)
DraftPrompt(text) == [instruction |-> "draft", embedded |-> Str(text)]
ImprovePrompt(text) == [instruction |-> "improve", embedded |-> Str(text)]

Request(handle, model, temperature, prompt, outcome) ==
    [handle |-> handle, model |-> model, temperature |-> temperature,
     prompt |-> prompt, raised |-> outcome.raised, text |-> outcome.text]

\* Mutant of DraftArticle: the except clause lets the exception through.
DraftArticleReraises(text, foundation_model, temperature, cl, outcome) ==
    LET req == Request(cl, foundation_model, temperature, DraftPrompt(text), outcome)
    IN IF outcome.raised = NoExc
       THEN [ret |-> outcome.text, raised |-> NoExc, printed |-> <<>>,
             requests |-> <<req>>]
       ELSE [ret |-> Unset, raised |-> outcome.raised,
             printed |-> <<<<"An error occurred during article generation: ",
                            outcome.raised.msg>>>>,
             requests |-> <<req>>]

\* def draft_article(transcript, foundation_model, temperature=0.5), reading
\* the module variable client (cl); outcome is the service's answer.
DraftArticle(text, foundation_model, temperature, cl, outcome) ==
    LET req == Request(cl, foundation_model, temperature, DraftPrompt(text), outcome)
    IN IF outcome.raised = NoExc
       THEN [ret |-> outcome.text, raised |-> NoExc, printed |-> <<>>,
             requests |-> <<req>>]
       ELSE IF CaughtByExceptException(outcome.raised)
       THEN [ret |-> None, raised |-> NoExc,
             printed |-> <<<<"An error occurred during article generation: ",
                            outcome.raised.msg>>>>,
             requests |-> <<req>>]
       ELSE [ret |-> Unset, raised |-> outcome.raised, printed |-> <<>>,
             requests |-> <<req>>]

\* Mutant of ImprovePass: a draft of None is rejected before any request.
ImprovePassRejectsNone(draft, cl, outcome) ==
    LET req == Request(cl, "gemini-2.0-flash", "unset", ImprovePrompt(draft), outcome)
    IN IF draft = None
       THEN [ret |-> Unset, raised |-> Raise("TypeError", "no article text"),
             requests |-> <<>>]
       ELSE IF outcome.raised = NoExc
       THEN [ret |-> outcome.text, raised |-> NoExc, requests |-> <<req>>]
       ELSE [ret |-> Unset, raised |-> outcome.raised, requests |-> <<req>>]

\* Mutant of ImprovePass: the exception is caught, as draft_article does.
ImprovePassCaught(draft, cl, outcome) ==
    LET req == Request(cl, "gemini-2.0-flash", "unset", ImprovePrompt(draft), outcome)
    IN IF outcome.raised = NoExc
       THEN [ret |-> outcome.text, raised |-> NoExc, requests |-> <<req>>]
       ELSE IF CaughtByExceptException(outcome.raised)
       THEN [ret |-> None, raised |-> NoExc, requests |-> <<req>>]
       ELSE [ret |-> Unset, raised |-> outcome.raised, requests |-> <<req>>]

\* improved_article = client.models.generate_content(...);
\* improved_article_text = improved_article.text
ImprovePass(draft, cl, outcome) ==
    LET req == Request(cl, "gemini-2.0-flash", "unset", ImprovePrompt(draft), outcome)
    IN IF outcome.raised = NoExc
       THEN [ret |-> outcome.text, raised |-> NoExc, requests |-> <<req>>]
       ELSE [ret |-> Unset, raised |-> outcome.raised, requests |-> <<req>>]

(***************************************************************************)
(* Export                                                                  *)
(***************************************************************************)
Parent(path) == SubSeq(path, 1, 2)

\* A file can be created only in a directory that exists.
Save(fs, d, path, content) ==
    IF Parent(path) \in d
    THEN [files |-> WriteFile(fs, path, content), raised |-> NoExc]
    ELSE [files |-> fs, raised |-> Raise("FileNotFoundError", "No such file or directory")]

\* doc = Document(); doc.add_paragraph(text); doc.save(filename)
DocxOf(text) ==
    [format |-> "docx", body |-> <<IF text = None THEN <<>> ELSE text>>]

ExportToDocx(fs, d, text, filename) == Save(fs, d, filename, DocxOf(text))

\* Paragraph(text.replace("\n", "<br/>"), styles["Normal"]); doc.build([p])
PdfOf(text) == [format |-> "pdf", body |-> <<ReplaceNewlines(text)>>]

\* Mutant of ExportToPdf: an existing file is kept.
ExportToPdfIfAbsent(fs, d, text, filename) ==
    IF IsFile(fs, filename) THEN [files |-> fs, raised |-> NoExc]
    ELSE Save(fs, d, filename, PdfOf(text))

ExportToPdf(fs, d, text, filename) ==
    IF text = None
    THEN [files |-> fs,
          raised |-> Raise("AttributeError", "'NoneType' object has no attribute 'replace'")]
    ELSE Save(fs, d, filename, PdfOf(text))

(***************************************************************************)
(* The script                                                              *)
(***************************************************************************)
NoError == [cls |-> "", msg |-> "", stage |-> ""]
NoClient == [api_key |-> Unset]
NoCall == [fn |-> "", args |-> <<>>, before |-> {}, raised |-> NoExc,
           ret |-> Unset, printed |-> <<>>, requests |-> <<>>]
UnknownOrigin == [known |-> FALSE, text |-> <<>>, audio |-> ""]

AudioVersions == {"recording-1", "recording-2"}
ApiKeys == {None, <<>>, <<"k">>}

\* Mutant of Falsy: only None counts as missing.
FalsyNoneOnly(value) == value = None

\* "if not google_api_key": None and the empty string are falsy.
Falsy(value) == value = None \/ value = <<>>

\* Mutant of Successor: the improvement pass is skipped.
SuccessorSkipsImprove(p) ==
    CASE p = "setup" -> "transcript"
      [] p = "transcript" -> "key"
      [] p = "key" -> "draft"
      [] p = "draft" -> "export_docx"
      [] p = "improve" -> "export_docx"
      [] p = "export_docx" -> "export_pdf"
      [] p = "export_pdf" -> "done"

\* The script's statement groups, in the order the file lists them.
Successor(p) ==
    CASE p = "setup" -> "transcript"
      [] p = "transcript" -> "key"
      [] p = "key" -> "draft"
      [] p = "draft" -> "improve"
      [] p = "improve" -> "export_docx"
      [] p = "export_docx" -> "export_pdf"
      [] p = "export_pdf" -> "done"

\* An uncaught exception ends the run where it was raised.
Halt(exc) ==
    /\ pc' = "crashed"
    /\ error' = [cls |-> exc.cls, msg |-> exc.msg, stage |-> pc]

Advance ==
    /\ pc' = Successor(pc)
    /\ error' = error

Init ==
    /\ pc = "setup"
    /\ run = 1
    /\ platform \in {"nt", "posix"}
    /\ google_api_key \in ApiKeys
    /\ audio = "recording-1"
    /\ \/ /\ files = <<>>
          /\ dirs = {}
       \/ /\ \E content \in Texts : files = [p \in {transcript_path} |-> content]
          /\ dirs = Prefixes(Parent(transcript_path))
    /\ transcript = Unset
    /\ client = NoClient
    /\ article_draft_text = Unset
    /\ improved_article_text = Unset
    /\ stdout = <<>>
    /\ requests = <<>>
    /\ transcribe_calls = 0
    /\ error = NoError
    /\ atStart = files
    /\ cachedFrom = UnknownOrigin
    /\ call = NoCall

\* ensure_directories(data_path)
Setup ==
    /\ pc = "setup"
    /\ LET r == EnsureDirectories(dirs, data_path, None)
       IN /\ dirs' = r.dirs
          /\ IF r.raised = NoExc THEN Advance ELSE Halt(r.raised)
    /\ UNCHANGED <<run, platform, google_api_key, audio, files, transcript, client,
                   article_draft_text, improved_article_text, stdout, requests,
                   transcribe_calls, atStart, cachedFrom, call>>

\* if os.path.isfile(transcript_path): read it; else: transcribe and write it.
TranscribeOrLoad ==
    /\ pc = "transcript"
    /\ IF IsFile(files, transcript_path)
       THEN /\ transcript' = ReadText(files[transcript_path])
            /\ stdout' = stdout \o <<<<"The transcript is already extracted and saved.">>,
                                     <<"The transcript is loaded and ready.">>>>
            /\ Advance
            /\ UNCHANGED <<files, transcribe_calls, cachedFrom>>
       ELSE \E outcome \in TranscribeOutcomes :
            /\ transcribe_calls' = transcribe_calls + 1
            /\ IF outcome.raised # NoExc
               THEN /\ Halt(outcome.raised)
                    /\ UNCHANGED <<files, transcript, stdout, cachedFrom>>
               ELSE LET w == Save(files, dirs, transcript_path,
                                  WriteText(outcome.text, platform))
                    IN /\ transcript' = outcome.text
                       /\ files' = w.files
                       /\ IF w.raised # NoExc
                          THEN /\ Halt(w.raised)
                               /\ UNCHANGED <<stdout, cachedFrom>>
                          ELSE /\ Advance
                               /\ stdout' = Append(stdout,
                                      <<"Transcription is extracted and saved to ",
                                        "transcript_path">>)
                               /\ cachedFrom' = [known |-> TRUE, text |-> outcome.text,
                                                 audio |-> audio]
    /\ UNCHANGED <<run, platform, google_api_key, audio, dirs, client,
                   article_draft_text, improved_article_text, requests, atStart, call>>

\* google_api_key = os.getenv(...); if not google_api_key: raise ValueError(...)
\* client = genai.Client(api_key=google_api_key)
LoadApiKey ==
    /\ pc = "key"
    /\ IF Falsy(google_api_key)
       THEN /\ Halt(Raise("ValueError", "GOOGLE_API_KEY not found"))
            /\ client' = client
       ELSE /\ Advance
            /\ client' = [api_key |-> google_api_key]
    /\ UNCHANGED <<run, platform, google_api_key, audio, dirs, files, transcript,
                   article_draft_text, improved_article_text, stdout, requests,
                   transcribe_calls, atStart, cachedFrom, call>>

\* article_draft_text = draft_article(transcript=transcript,
\*     foundation_model="gemini-2.5-flash", temperature=0.4)
Draft ==
    /\ pc = "draft"
    /\ \E outcome \in GenOutcomes :
         LET r == DraftArticle(transcript, "gemini-2.5-flash", "0.4", client, outcome)
         IN /\ requests' = requests \o r.requests
            /\ stdout' = stdout \o r.printed
            /\ IF r.raised # NoExc
               THEN /\ Halt(r.raised)
                    /\ article_draft_text' = article_draft_text
               ELSE /\ Advance
                    /\ article_draft_text' = r.ret
    /\ UNCHANGED <<run, platform, google_api_key, audio, dirs, files, transcript,
                   client, improved_article_text, transcribe_calls, atStart,
                   cachedFrom, call>>

\* The improvement pass: one request, its exception is not caught.
Improve ==
    /\ pc = "improve"
    /\ \E outcome \in GenOutcomes :
         LET r == ImprovePass(article_draft_text, client, outcome)
         IN /\ requests' = requests \o r.requests
            /\ IF r.raised # NoExc
               THEN /\ Halt(r.raised)
                    /\ improved_article_text' = improved_article_text
               ELSE /\ Advance
                    /\ improved_article_text' = r.ret
    /\ UNCHANGED <<run, platform, google_api_key, audio, dirs, files, transcript,
                   client, article_draft_text, stdout, transcribe_calls, atStart,
                   cachedFrom, call>>

\* export_to_docx(improved_article_text, save_article_path + ".docx")
ExportDocx ==
    /\ pc = "export_docx"
    /\ LET r == ExportToDocx(files, dirs, improved_article_text, docx_path)
       IN /\ files' = r.files
          /\ IF r.raised # NoExc
             THEN Halt(r.raised) /\ stdout' = stdout
             ELSE /\ Advance
                  /\ stdout' = Append(stdout, <<"The Article is saved correctly to: ",
                                                "save_article_path", "MS Word">>)
    /\ UNCHANGED <<run, platform, google_api_key, audio, dirs, transcript, client,
                   article_draft_text, improved_article_text, requests,
                   transcribe_calls, atStart, cachedFrom, call>>

\* export_to_pdf(improved_article_text, save_article_path + ".pdf")
ExportPdf ==
    /\ pc = "export_pdf"
    /\ LET r == ExportToPdf(files, dirs, improved_article_text, pdf_path)
       IN /\ files' = r.files
          /\ IF r.raised # NoExc
             THEN Halt(r.raised) /\ stdout' = stdout
             ELSE /\ Advance
                  /\ stdout' = Append(stdout, <<"The article is saved correctly to: ",
                                                "save_article_path", "PDF">>)
    /\ UNCHANGED <<run, platform, google_api_key, audio, dirs, transcript, client,
                   article_draft_text, improved_article_text, requests,
                   transcribe_calls, atStart, cachedFrom, call>>

\* The script is run again: a new process on the same filesystem; the audio
\* file and the environment variable may have been changed in between.
StartRun ==
    /\ pc \in {"done", "crashed"}
    /\ run < MaxRuns
    /\ run' = run + 1
    /\ audio' \in AudioVersions
    /\ google_api_key' \in ApiKeys
    /\ pc' = "setup"
    /\ transcript' = Unset
    /\ client' = NoClient
    /\ article_draft_text' = Unset
    /\ improved_article_text' = Unset
    /\ stdout' = <<>>
    /\ requests' = <<>>
    /\ transcribe_calls' = 0
    /\ error' = NoError
    /\ atStart' = files
    /\ UNCHANGED <<platform, dirs, files, cachedFrom, call>>

Next ==
    \/ Setup
    \/ TranscribeOrLoad
    \/ LoadApiKey
    \/ Draft
    \/ Improve
    \/ ExportDocx
    \/ ExportPdf
    \/ StartRun

Spec == Init /\ [][Next]_vars

(***************************************************************************)
(* The functions of the module called on their own, the way                *)
(* tests/test_main.py calls them: by name, with keyword arguments.  The    *)
(* module variable client is the configured one.                           *)
(***************************************************************************)
MaxSubdirs == 2

\* The names main.py defines with def.
ModuleFunctions == {"transcribe_audio", "ensure_directories", "draft_article",
                    "export_to_docx", "export_to_pdf"}

\* def draft_article(transcript: str, foundation_model: str, temperature: float = 0.5)
DraftArticleParams == {"transcript", "foundation_model", "temperature"}
DraftArticleDefaults == [temperature |-> "0.5"]

ConfiguredClient == [api_key |-> <<"k">>]
MockClient == [api_key |-> <<"<mock>">>]

Returned(value) ==
    [ret |-> value, raised |-> NoExc, printed |-> <<>>, requests |-> <<>>]
Raised(exc) ==
    [ret |-> Unset, raised |-> exc, printed |-> <<>>, requests |-> <<>>]

\* from audio_to_article.main import fn; fn(**kw) for a generation function.
\* A name the module does not define cannot be imported; a keyword the
\* function does not declare is a TypeError before its body runs.
InvokeGeneration(fn, kw, cl, outcome) ==
    IF fn \notin ModuleFunctions
    THEN Raised(Raise("ImportError", "cannot import name"))
    ELSE IF ~(DOMAIN kw \subseteq DraftArticleParams)
    THEN Raised(Raise("TypeError", "got an unexpected keyword argument"))
    ELSE DraftArticle(kw.transcript, kw.foundation_model,
                      IF "temperature" \in DOMAIN kw THEN kw.temperature
                      ELSE DraftArticleDefaults.temperature,
                      cl, outcome)

SubdirNames == {"transcripts", "test_audios"}
SubdirLists ==
    {None} \cup UNION {[1..n -> SubdirNames] : n \in 0..MaxSubdirs}
BasePaths == {data_path, <<"tmp">>}
CallTexts == {<<>>, <<"a">>, <<"a", "LF", "a">>}

InitCalls ==
    /\ pc = "done"
    /\ run = 1
    /\ platform = "posix"
    /\ google_api_key = <<"k">>
    /\ audio = "recording-1"
    /\ files = <<>>
    /\ dirs \in {{}, Prefixes(Parent(transcript_path))}
    /\ transcript = Unset
    /\ client = ConfiguredClient
    /\ article_draft_text = Unset
    /\ improved_article_text = Unset
    /\ stdout = <<>>
    /\ requests = <<>>
    /\ transcribe_calls = 0
    /\ error = NoError
    /\ atStart = files
    /\ cachedFrom = UnknownOrigin
    /\ call = NoCall

Record(fn, args, before, r) ==
    [fn |-> fn, args |-> args, before |-> before, raised |-> r.raised,
     ret |-> r.ret, printed |-> r.printed, requests |-> r.requests]

\* draft_article(transcript=..., foundation_model=... [, temperature=...] [, client=...])
CallDraftArticle ==
    /\ \E text \in CallTexts, temperature \in {"omitted", "0.4"}, handle \in BOOLEAN,
          outcome \in GenOutcomes :
         LET named == [transcript |-> text, foundation_model |-> "gemini-test-flash"]
             withT == IF temperature = "omitted" THEN named
                      ELSE named @@ [temperature |-> temperature]
             kw == IF handle THEN withT @@ [client |-> MockClient] ELSE withT
         IN call' = Record("draft_article", kw, {},
                           InvokeGeneration("draft_article", kw, client, outcome))
    /\ UNCHANGED <<pc, run, platform, google_api_key, audio, dirs, files, transcript,
                   client, article_draft_text, improved_article_text, stdout,
                   requests, transcribe_calls, error, atStart, cachedFrom>>

\* improve_article(article_text, client)
CallImproveArticle ==
    /\ \E text \in ResponseTexts, outcome \in GenOutcomes :
         LET kw == [article_text |-> text, client |-> MockClient]
         IN call' = Record("improve_article", kw, {},
                           InvokeGeneration("improve_article", kw, client, outcome))
    /\ UNCHANGED <<pc, run, platform, google_api_key, audio, dirs, files, transcript,
                   client, article_draft_text, improved_article_text, stdout,
                   requests, transcribe_calls, error, atStart, cachedFrom>>

\* ensure_directories(base_path [, subdirs=...])
CallEnsureDirectories ==
    /\ \E base_path \in BasePaths, subdirs \in SubdirLists :
         LET r == EnsureDirectories(dirs, base_path, subdirs)
         IN /\ dirs' = r.dirs
            /\ call' = Record("ensure_directories",
                              [base_path |-> base_path, subdirs |-> subdirs],
                              dirs, Raised(r.raised))
    /\ UNCHANGED <<pc, run, platform, google_api_key, audio, files, transcript,
                   client, article_draft_text, improved_article_text, stdout,
                   requests, transcribe_calls, error, atStart, cachedFrom>>

NextCalls ==
    \/ CallDraftArticle
    \/ CallImproveArticle
    \/ CallEnsureDirectories

SpecCalls == InitCalls /\ [][NextCalls]_vars

(***************************************************************************)
(* Properties                                                              *)
(***************************************************************************)
CacheHit == IsFile(atStart, transcript_path)
Artifacts(fs) == [p \in (DOMAIN fs) \cap {docx_path, pdf_path} |-> fs[p]]
DraftRequests == {i \in DOMAIN requests : requests[i].prompt.instruction = "draft"}
ImproveRequests == {i \in DOMAIN requests : requests[i].prompt.instruction = "improve"}

\* C1: in a run that starts with the cache file present, transcribe_audio is
\* never invoked, the transcript every later stage uses equals the cache
\* file's content exactly, and the cache file is left unchanged.
C1_CacheHitUsesContentExactly ==
    CacheHit =>
        /\ transcribe_calls = 0
        /\ IsFile(files, transcript_path)
        /\ files[transcript_path] = atStart[transcript_path]
        /\ transcript # Unset => transcript = atStart[transcript_path]
        /\ \A i \in DraftRequests :
               requests[i].prompt.embedded = atStart[transcript_path]

\* C2: after a cache miss whose transcription succeeds, the cache file holds
\* the transcribed text verbatim, and every later run is a cache hit that
\* loads exactly that text without invoking transcribe_audio.
C2_CacheMissRoundTrip ==
    cachedFrom.known =>
        /\ IsFile(files, transcript_path)
        /\ files[transcript_path] = cachedFrom.text
        /\ (CacheHit /\ transcript # Unset) =>
               /\ transcript = cachedFrom.text
               /\ transcribe_calls = 0

DraftCall == call.fn = "draft_article" /\ "client" \notin DOMAIN call.args
Mentions(printed, msg) ==
    \E i \in DOMAIN printed : \E j \in DOMAIN printed[i] : printed[i][j] = msg

\* C3 as stated: draft_article never raises.  It issues exactly one request;
\* when the request succeeds it returns the response's text, and when the
\* request raises any exception it prints a line with the exception's text
\* and returns None.
C3_DraftNeverRaises ==
    DraftCall =>
        /\ call.raised = NoExc
        /\ Len(call.requests) = 1
        /\ call.requests[1].raised = NoExc => call.ret = call.requests[1].text
        /\ call.requests[1].raised # NoExc =>
               /\ call.ret = None
               /\ Mentions(call.printed, call.requests[1].raised.msg)

\* C3 as amended: draft_article issues exactly one request; when the request
\* succeeds it returns the response's text; when the request raises an
\* exception that derives from Exception it prints a line with the
\* exception's text, returns None and does not raise; an exception that
\* derives from BaseException only (KeyboardInterrupt) propagates.
C3_DraftCatchesException ==
    DraftCall =>
        /\ Len(call.requests) = 1
        /\ call.requests[1].model = call.args.foundation_model
        /\ call.requests[1].prompt.embedded = call.args.transcript
        /\ call.requests[1].raised = NoExc =>
               /\ call.raised = NoExc
               /\ call.ret = call.requests[1].text
               /\ call.printed = <<>>
        /\ call.requests[1].raised.cls \in ExceptionClasses =>
               /\ call.raised = NoExc
               /\ call.ret = None
               /\ Len(call.printed) = 1
               /\ Mentions(call.printed, call.requests[1].raised.msg)
        /\ call.requests[1].raised.cls \in BaseOnlyClasses =>
               call.raised = call.requests[1].raised

\* C3 witness: a call whose request raised Exception("API Error") returned None.
C3_Witness ==
    /\ DraftCall
    /\ call.requests[1].raised = Raise("Exception", "API Error")
    /\ call.ret = None
    /\ call.raised = NoExc

\* C4 as stated: whenever draft_article returned None the run crashes at the
\* next stage, so it never completes Export and writes neither artifact.
C4_FailedDraftCrashesRun ==
    article_draft_text = None =>
        /\ pc \notin {"export_docx", "export_pdf", "done"}
        /\ Artifacts(files) = Artifacts(atStart)

\* C4 as amended: whenever draft_article returned None nothing downstream
\* guards against it and nothing crashes because of it: the improvement pass
\* issues its request with the text "None" embedded, the run halts only if
\* that request itself raises, and otherwise it completes Export and writes
\* both artifacts from the improved text.
C4_FailedDraftReachesImprove ==
    (article_draft_text = None /\ pc # "improve") =>
        /\ ImproveRequests # {}
        /\ \A i \in ImproveRequests :
               /\ requests[i].prompt.embedded = NoneText
               /\ pc = "crashed" =>
                      /\ error.stage = "improve"
                      /\ requests[i].raised # NoExc
                      /\ error.cls = requests[i].raised.cls
               /\ pc # "crashed" => improved_article_text = requests[i].text
        /\ pc = "done" =>
               /\ IsFile(files, docx_path)
               /\ IsFile(files, pdf_path)
               /\ files[docx_path].body = <<improved_article_text>>

\* C4 witness: a run whose draft failed completed Export.
C4_Witness ==
    /\ article_draft_text = None
    /\ pc = "done"
    /\ IsFile(files, docx_path)
    /\ IsFile(files, pdf_path)

MissingKey == google_api_key = None \/ google_api_key = <<>>

\* C5 as stated: with GOOGLE_API_KEY absent or empty the run aborts before
\* the Transcribe-or-Load stage has any effect (no transcription, no cache
\* file written) and before any generation request or export.
C5_MissingKeyFailsBeforeTranscription ==
    MissingKey =>
        /\ transcribe_calls = 0
        /\ files = atStart
        /\ requests = <<>>
        /\ pc \notin {"draft", "improve", "export_docx", "export_pdf", "done"}

\* C5 as amended: with GOOGLE_API_KEY absent or empty the run aborts with a
\* ValueError naming the variable before any generation request or export is
\* performed, but after the Transcribe-or-Load stage has run: transcription
\* may already have been invoked and the cache file written.
C5_MissingKeyFailsBeforeGeneration ==
    MissingKey =>
        /\ requests = <<>>
        /\ client = NoClient
        /\ Artifacts(files) = Artifacts(atStart)
        /\ pc \notin {"draft", "improve", "export_docx", "export_pdf", "done"}
        /\ (pc = "crashed" /\ transcript # Unset) =>
               /\ error.cls = "ValueError"
               /\ error.msg = "GOOGLE_API_KEY not found"
               /\ error.stage = "key"

\* C5 witness: the run aborted on the missing key after transcribing and
\* writing the cache file.
C5_Witness ==
    /\ MissingKey
    /\ pc = "crashed"
    /\ error.cls = "ValueError"
    /\ transcribe_calls = 1
    /\ ~IsFile(atStart, transcript_path)
    /\ IsFile(files, transcript_path)

\* The stage a position of the script belongs to: 1 Setup,
\* 2 Transcribe-or-Load, 3 Draft, 4 Improve, 5 Export, 6 finished.
StageAt(p) ==
    CASE p = "setup" -> 1
      [] p = "transcript" -> 2
      [] p \in {"key", "draft"} -> 3
      [] p = "improve" -> 4
      [] p \in {"export_docx", "export_pdf"} -> 5
      [] p = "done" -> 6
      [] p = "crashed" -> 0

StagesInOrder ==
    \/ pc' = pc
    \/ pc' = "crashed" /\ pc \notin {"done", "crashed"}
    \/ pc \in {"done", "crashed"} /\ pc' = "setup" /\ run' = run + 1
    \/ /\ pc \notin {"done", "crashed"}
       /\ StageAt(pc') \in {StageAt(pc), StageAt(pc) + 1}
       /\ StageAt(pc') # StageAt(pc) => pc \in {"setup", "transcript", "draft",
                                                "improve", "export_pdf"}

EachStageConsumesThePrevious ==
    /\ transcribe_calls <= 1
    /\ Cardinality(DraftRequests) <= 1
    /\ Cardinality(ImproveRequests) <= 1
    /\ \A i \in DraftRequests : requests[i].prompt.embedded = transcript
    /\ \A i \in ImproveRequests :
           /\ \A j \in DraftRequests : j < i
           /\ requests[i].prompt.embedded =
                  (IF article_draft_text = None THEN NoneText ELSE article_draft_text)
    /\ StageAt(pc) >= 3 => transcript # Unset
    /\ StageAt(pc) >= 4 => article_draft_text # Unset /\ DraftRequests # {}
    /\ StageAt(pc) >= 5 => improved_article_text # Unset /\ ImproveRequests # {}
    /\ pc \in {"export_pdf", "done"} =>
           files[docx_path].body = <<improved_article_text>>
    /\ pc = "done" => files[pdf_path] = PdfOf(improved_article_text)

\* C6: a run passes through the stages only in the order Setup,
\* Transcribe-or-Load, Draft, Improve, Export: the position never moves back
\* and never skips a stage, no stage runs twice, and each stage consumes the
\* output of the one before (Draft the transcript, Improve the draft, Export
\* the improved text).
C6_StrictStageOrder == [][StagesInOrder]_vars /\ []EachStageConsumesThePrevious

\* C6 witness: a run that went through all five stages after a cache miss.
C6_Witness ==
    /\ pc = "done"
    /\ transcribe_calls = 1
    /\ Len(requests) = 2
    /\ requests[2].prompt.embedded = article_draft_text

ImproveRaised == \E i \in ImproveRequests : requests[i].raised # NoExc

ImproveFailureHalts ==
    ImproveRaised =>
        /\ pc = "crashed"
        /\ error.stage = "improve"
        /\ \A i \in ImproveRequests : error.cls = requests[i].raised.cls
        /\ improved_article_text = Unset
        /\ Artifacts(files) = Artifacts(atStart)

\* C7: when the improvement pass's request raises, the exception is not
\* caught: the run halts in the Improve stage, no .docx or .pdf is written or
\* overwritten in that run, and the stage leaves every file, the transcript
\* cache included, as it was.
C7_ImproveFailureIsFatal ==
    []ImproveFailureHalts /\ [][pc = "improve" => files' = files]_vars

\* C7 witness: the improvement request raised in a run that started with both
\* artifacts of an earlier run on disk.
C7_Witness ==
    /\ ImproveRaised
    /\ pc = "crashed"
    /\ IsFile(atStart, docx_path)
    /\ IsFile(atStart, pdf_path)
    /\ IsFile(files, transcript_path)

\* C8: draft_article(..., client=c) and improve_article(text, c) each issue
\* exactly one generate_content request on the handle c they were given and
\* return the text of its response.
C8_InjectedClientHandle ==
    (/\ call.fn \in {"draft_article", "improve_article"}
     /\ "client" \in DOMAIN call.args) =>
        /\ Len(call.requests) = 1
        /\ call.requests[1].handle = call.args.client
        /\ call.requests[1].raised = NoExc =>
               /\ call.raised = NoExc
               /\ call.ret = call.requests[1].text

ArtifactsOfThisRun ==
    pc = "done" =>
        /\ IsFile(files, docx_path)
        /\ IsFile(files, pdf_path)
        /\ \A i \in ImproveRequests : improved_article_text = requests[i].text
        /\ files[docx_path] = [format |-> "docx", body |-> <<improved_article_text>>]
        /\ files[pdf_path].format = "pdf"
        /\ files[pdf_path].body = <<ReplaceNewlines(improved_article_text)>>

ArtifactsChangeOnlyInExport ==
    Artifacts(files') # Artifacts(files) => pc \in {"export_docx", "export_pdf"}

\* C9: in every run that completes Export both artifacts are written from the
\* same improved text of that run, whatever either file held before, and
\* nothing but the Export stage changes them, so after completed runs both
\* hold the improved text of the most recent one.
C9_ArtifactsHoldLatestText ==
    []ArtifactsOfThisRun /\ [][ArtifactsChangeOnlyInExport]_vars

\* C9 witness: a completed run overwrote both artifacts of an earlier run
\* with a different text.
C9_Witness ==
    /\ pc = "done"
    /\ IsFile(atStart, docx_path)
    /\ IsFile(atStart, pdf_path)
    /\ atStart[docx_path] # files[docx_path]
    /\ atStart[pdf_path] # files[pdf_path]

EnsureCall == call.fn = "ensure_directories"
Listed(subdirs) == IF subdirs = None THEN DefaultSubdirs ELSE subdirs

EnsuredAfterCall ==
    EnsureCall =>
        /\ call.raised = NoExc
        /\ call.before \subseteq dirs
        /\ \A i \in DOMAIN Listed(call.args.subdirs) :
               Append(call.args.base_path, Listed(call.args.subdirs)[i]) \in dirs
        /\ \A path \in dirs \ call.before :
               \/ path = call.args.base_path
               \/ \E i \in DOMAIN Listed(call.args.subdirs) :
                      path = Append(call.args.base_path, Listed(call.args.subdirs)[i])
        /\ call.args.subdirs = None =>
               \A name \in {"audio_files", "transcripts", "articles"} :
                   Append(call.args.base_path, name) \in dirs

SecondCallChangesNothing ==
    (EnsureCall /\ call'.fn = "ensure_directories" /\ call'.args = call.args) =>
        /\ call'.raised = NoExc
        /\ dirs' = dirs

\* C10: after a call of ensure_directories every listed subdirectory exists
\* under the base path and no directory that existed before is gone; a second
\* call with the same arguments raises no error and leaves the same directory
\* set; with no subdirectory set given, audio_files, transcripts and articles
\* are the ones ensured.
C10_EnsureDirectoriesIdempotent ==
    []EnsuredAfterCall /\ [][SecondCallChangesNothing]_vars

\* C10 witness: a second call with the default subdirectories, made when they
\* all existed already.
C10_Witness ==
    /\ EnsureCall
    /\ call.args.subdirs = None
    /\ call.raised = NoExc
    /\ call.before = dirs
    /\ Append(call.args.base_path, "articles") \in call.before

====
